---- MODULE Spec2Model ----
(***************************************************************************)
(* AWS-Region-Finder (src/src/lib.rs): a Cloudflare Worker that answers    *)
(* "which published AWS ranges contain this IP address".  The model covers *)
(* the process-wide slot AWS_RESPONSE, fetch_aws_ranges (get-or-populate), *)
(* calculate_aws_response (range index computation), ip_match and the      *)
(* GET / and GET /version handlers of main, plus the unit tests of the     *)
(* tests module as a second specification.                                 *)
(*                                                                         *)
(* Addresses are scaled down: an IPv4 address is a V4Bits-bit number and   *)
(* an IPv6 address a V6Bits-bit number.  A CIDR block keeps its meaning:   *)
(* the first len bits of the address are the prefix.                       *)
(***************************************************************************)
EXTENDS Integers, Sequences, FiniteSets, TLC

\* ------------------------------------------------------------------ bounds
\* number of requests in flight at once
NReq == 2
\* bits of a (scaled-down) IPv4 address
V4Bits == 2
\* bits of a (scaled-down) IPv6 address
V6Bits == 3
\* longest prefix list drawn for the unit tests' fixture
MaxEntries == 2

Req == 1..NReq

\* "no value": None of an Option, and the id 0 of "no Dataset"
None == "None"
NoArc == 0

\* ------------------------------------------------------- addresses, CIDRs
RECURSIVE Pow2(_)
Pow2(n) == IF n = 0 THEN 1 ELSE 2 * Pow2(n - 1)

Bits(fam) == IF fam = "V4" THEN V4Bits ELSE V6Bits

\* std::net::IpAddr: an address of one of the two families
IpAddr == [fam : {"V4"}, val : 0..(Pow2(V4Bits) - 1)]
            \cup [fam : {"V6"}, val : 0..(Pow2(V6Bits) - 1)]

\* Text of an `ip` query value.  syn is what the text looks like: a dotted
\* IPv4 literal, a colon IPv6 literal, the empty string or anything else.
IpText(syn, val) == [syn |-> syn, val |-> val]
EmptyText == IpText("empty", 0)
JunkText == IpText("junk", 0)

\* str::parse::<IpAddr>(): Ok(address) or Err
ParseIpAddr(text) ==
    CASE text.syn = "v4" /\ text.val \in 0..(Pow2(V4Bits) - 1)
            -> [ok |-> TRUE, fam |-> "V4", val |-> text.val]
      [] text.syn = "v6" /\ text.val \in 0..(Pow2(V6Bits) - 1)
            -> [ok |-> TRUE, fam |-> "V6", val |-> text.val]
      [] OTHER -> [ok |-> FALSE, fam |-> "V4", val |-> 0]

\* Text of a CIDR block "<address>/<len>" as published upstream.
Cidr(syn, addr, len) == [syn |-> syn, addr |-> addr, len |-> len]

\* str::parse::<Ipv4Net>() / str::parse::<Ipv6Net>(): the text must be an
\* address literal of that family followed by a prefix length that fits.
ParseNet(fam, text) ==
    IF /\ text.syn = (IF fam = "V4" THEN "v4" ELSE "v6")
       /\ text.addr \in 0..(Pow2(Bits(fam)) - 1)
       /\ text.len \in 0..Bits(fam)
    THEN [ok |-> TRUE, addr |-> text.addr, len |-> text.len]
    ELSE [ok |-> FALSE, addr |-> 0, len |-> 0]

\* iprange::IpRange<N>: a set of prefixes, each the first len bits of a
\* network.  IpRange::default() (the #[serde(skip)] field after decoding) is
\* the empty set.
EmptyRange == {}

\* [net].into_iter().collect::<IpRange<_>>(): the range of one network
RangeOfNet(fam, net) ==
    {[bits |-> net.addr \div Pow2(Bits(fam) - net.len), len |-> net.len]}

\* IpRange::contains(&addr): some stored prefix is a prefix of the address
RangeContains(fam, range, val) ==
    \E p \in range : val \div Pow2(Bits(fam) - p.len) = p.bits

\* ----------------------------------------------------------- data records
\* Ipv4Prefix / Ipv6Prefix as decoded from JSON: the computed range is empty
Prefix(text, region, service, nbg) ==
    [ip_prefix |-> text, compute |-> EmptyRange, region |-> region,
     service |-> service, network_border_group |-> nbg]

\* AWSIpRanges
Ranges(v4, v6) == [prefixes |-> v4, ipv6_prefixes |-> v6]

\* APIMatch: the projection of one entry
APIMatch(x) ==
    [ip_prefix |-> x.ip_prefix, region |-> x.region, service |-> x.service,
     network_border_group |-> x.network_border_group]

\* -------------------------------------------------- calculate_aws_response
\* the closure of one for_each: parse the entry's own text, unwrap, collect
ComputeEntry(fam, x) ==
    [x EXCEPT !.compute = RangeOfNet(fam, ParseNet(fam, x.ip_prefix))]

\* unwrap() panics on the first entry whose text does not parse
CalcPanics(ranges) ==
    \/ \E i \in 1..Len(ranges.prefixes) :
          ~ParseNet("V4", ranges.prefixes[i].ip_prefix).ok
    \/ \E i \in 1..Len(ranges.ipv6_prefixes) :
          ~ParseNet("V6", ranges.ipv6_prefixes[i].ip_prefix).ok

\* calculate_aws_response without its second loop: IPv6 ranges stay empty
calculate_aws_response_v4_only(ranges, cf_cache_status) ==
    [ranges |->
        [prefixes |->
            [i \in 1..Len(ranges.prefixes) |->
                ComputeEntry("V4", ranges.prefixes[i])],
         ipv6_prefixes |-> ranges.ipv6_prefixes],
     cf_cache_status |-> cf_cache_status]

\* calculate_aws_response collecting every network of a list into one range
\* that all entries of the list share
calculate_aws_response_merged(ranges, cf_cache_status) ==
    [ranges |->
        [prefixes |->
            [i \in 1..Len(ranges.prefixes) |->
                [ranges.prefixes[i] EXCEPT !.compute =
                    UNION {RangeOfNet("V4", ParseNet("V4", ranges.prefixes[j].ip_prefix)) :
                              j \in 1..Len(ranges.prefixes)}]],
         ipv6_prefixes |->
            [i \in 1..Len(ranges.ipv6_prefixes) |->
                [ranges.ipv6_prefixes[i] EXCEPT !.compute =
                    UNION {RangeOfNet("V6", ParseNet("V6", ranges.ipv6_prefixes[j].ip_prefix)) :
                              j \in 1..Len(ranges.ipv6_prefixes)}]]],
     cf_cache_status |-> cf_cache_status]

\* the AWSResponse built when no unwrap panics
calculate_aws_response(ranges, cf_cache_status) ==
    [ranges |->
        [prefixes |->
            [i \in 1..Len(ranges.prefixes) |->
                ComputeEntry("V4", ranges.prefixes[i])],
         ipv6_prefixes |->
            [i \in 1..Len(ranges.ipv6_prefixes) |->
                ComputeEntry("V6", ranges.ipv6_prefixes[i])]],
     cf_cache_status |-> cf_cache_status]

\* ---------------------------------------------------------------- matching
\* iter().filter(contains).map(APIMatch).collect(): order preserving
RECURSIVE FilterMap(_, _, _)
FilterMap(fam, entries, val) ==
    IF entries = <<>> THEN <<>>
    ELSE LET x == Head(entries)
             rest == FilterMap(fam, Tail(entries), val)
         IN IF RangeContains(fam, x.compute, val)
            THEN <<APIMatch(x)>> \o rest
            ELSE rest

\* ipv4_match reduced to one answer: the first containing entry wins
ipv4_match_first(aws_ranges, val) ==
    LET all == FilterMap("V4", aws_ranges, val)
    IN  IF all = << >> THEN << >> ELSE <<Head(all)>>

ipv4_match(aws_ranges, val) == FilterMap("V4", aws_ranges, val)

ipv6_match(aws_ranges, val) == FilterMap("V6", aws_ranges, val)

\* ip_match translating an IPv6 address that carries an IPv4 address in its
\* low bits (the upper bits zero) to IPv4 before dispatching
ip_match_mapped(aws_ranges, ip_address) ==
    IF ip_address.fam = "V4" \/ ip_address.val < Pow2(V4Bits)
    THEN ipv4_match(aws_ranges.prefixes, ip_address.val)
    ELSE ipv6_match(aws_ranges.ipv6_prefixes, ip_address.val)

ip_match(aws_ranges, ip_address) ==
    IF ip_address.fam = "V4"
    THEN ipv4_match(aws_ranges.prefixes, ip_address.val)
    ELSE ipv6_match(aws_ranges.ipv6_prefixes, ip_address.val)

\* ------------------------------------------------------------------ inputs
CF_CACHE_STATUS_HEADER == "cf-cache-status"

\* an address with the top bit set, and its neighbour
TopV4 == Pow2(V4Bits - 1)
TopV6 == Pow2(V6Bits - 1)

\* Upstream bodies that decode as AWSIpRanges.  FeedGood has a broad block
\* written with host bits set, a narrower block inside it, and one IPv6
\* block; FeedBad has an entry whose prefix length does not fit.
FeedGood ==
    Ranges(<<Prefix(Cidr("v4", TopV4 + 1, 1), "us-east-1", "AMAZON", "us-east-1"),
             Prefix(Cidr("v4", TopV4 + 1, V4Bits), "us-east-1", "EC2", "us-east-1")>>,
           <<Prefix(Cidr("v6", TopV6, 1), "ap-south-1", "AMAZON", "ap-south-1")>>)

FeedBad ==
    Ranges(<<Prefix(Cidr("v4", TopV4, 1), "us-east-1", "AMAZON", "us-east-1"),
             Prefix(Cidr("v4", 0, V4Bits + 1), "eu-west-1", "S3", "eu-west-1")>>,
           <<>>)

\* What the upstream answers once the request was sent: a body that decodes
\* or not, the cf-cache-status header present or not, and whether reading
\* the header fails.
Upstream ==
    [decodes : {TRUE}, body : {FeedGood, FeedBad}, hdr_ok : {TRUE},
     cf_header : {None, "HIT"}]
    \cup [decodes : {FALSE}, body : {FeedGood}, hdr_ok : {TRUE}, cf_header : {None}]
    \cup [decodes : {TRUE}, body : {FeedGood}, hdr_ok : {FALSE}, cf_header : {None}]

\* query strings: sequences of <<key, value>> pairs.  The addresses sent are
\* an IPv4 address inside both IPv4 blocks of FeedGood, the IPv6 address of
\* the same number (in no IPv6 block) and an IPv6 address inside the IPv6 block.
Queries ==
    {<< >>, << <<"ip", EmptyText>> >>, << <<"ip", JunkText>> >>}
    \cup {<< <<"ip", IpText("v4", TopV4 + 1)>> >>,
          << <<"x", JunkText>>, <<"ip", IpText("v6", TopV4 + 1)>> >>,
          << <<"ip", JunkText>>, <<"ip", IpText("v6", TopV6)>> >>}

\* an incoming GET request: for "/", for "/version" (with the variable
\* WORKERS_RS_VERSION bound or not) or for a path no route is registered for
HttpRequests ==
    [path : {"/"}, url_ok : {TRUE}, query : Queries, var_bound : {TRUE}]
    \cup [path : {"/"}, url_ok : {FALSE}, query : {<< >>}, var_bound : {TRUE}]
    \cup [path : {"/version"}, url_ok : {TRUE}, query : {<< >>}, var_bound : BOOLEAN]
    \cup [path : {"/other"}, url_ok : {TRUE}, query : {<< >>}, var_bound : {TRUE}]

\* query_pairs().find(|i| i.0 == "ip").map(|i| i.1)
RECURSIVE FindIp(_)
FindIp(query) ==
    IF query = << >> THEN [some |-> FALSE, text |-> EmptyText]
    ELSE IF Head(query)[1] = "ip"
         THEN [some |-> TRUE, text |-> Head(query)[2]]
         ELSE FindIp(Tail(query))

\* ------------------------------------------------------------------- state
VARIABLES
    AWS_RESPONSE,   \* the slot: NoArc or the id of the Dataset it references
    heap,           \* heap[id]: the AWSResponse behind Arc number id
    lock,           \* the RwLock: who holds it shared, who holds it exclusive
    wlog,           \* ids stored into the slot, in the order of the writes
    req,            \* per request-handling task: position and locals
    t_pc, t_ranges, t_resp, t_ip, t_out   \* the unit tests (tests module)

mainvars == <<AWS_RESPONSE, heap, lock, wlog, req>>
testvars == <<t_pc, t_ranges, t_resp, t_ip, t_out>>
vars == <<AWS_RESPONSE, heap, lock, wlog, req, t_pc, t_ranges, t_resp, t_ip, t_out>>

NoAddr == [fam |-> "none", val |-> 0]
NoResp == [status |-> 0, cors |-> FALSE, msg |-> "", requested_ip |-> EmptyText,
           cache_status |-> "", matches |-> << >>]

\* Response::error(msg, status)?.with_cors(&CORS_HEADERS)
ErrorCors(msg, status) == [NoResp EXCEPT !.status = status, !.cors = TRUE, !.msg = msg]

IdleReq ==
    [pc |-> "idle", path |-> "", url_ok |-> TRUE, query |-> << >>,
     ip_param |-> EmptyText, ip_address |-> NoAddr,
     read |-> NoArc, storage |-> NoArc, is_local |-> FALSE, fresh |-> NoArc,
     cf_header |-> None, locks |-> 0, loads |-> 0, bad_cidr |-> FALSE,
     after_fail |-> FALSE, resp |-> NoResp]

NoTestResp == [ranges |-> Ranges(<< >>, << >>), cf_cache_status |-> ""]

MainInit ==
    /\ AWS_RESPONSE = NoArc
    /\ heap = << >>
    /\ lock = [readers |-> {}, writer |-> 0]
    /\ wlog = << >>
    /\ req = [r \in Req |-> IdleReq]

TestIdle ==
    /\ t_pc = "off"
    /\ t_ranges = Ranges(<< >>, << >>)
    /\ t_resp = NoTestResp
    /\ t_ip = NoAddr
    /\ t_out = << >>

Init == MainInit /\ TestIdle

\* ------------------------------------------------------------ main, GET /
\* history only: some request has just been answered that the ranges could
\* not be fetched, and the slot is empty
FailedAndEmpty ==
    /\ AWS_RESPONSE = NoArc
    /\ \E q \in Req : /\ req[q].pc = "done"
                      /\ req[q].resp = ErrorCors("Unable to fetch AWS ranges", 500)

\* Start with the address parsed only after the Dataset was obtained
Start_late_parse(r) ==
    /\ req[r].pc = "idle"
    /\ \E h \in HttpRequests :
         LET ip_param == FindIp(h.query)
             parsed == ParseIpAddr(ip_param.text)
             got == [req EXCEPT ![r].path = h.path, ![r].url_ok = h.url_ok,
                               ![r].query = h.query]
             done(resp) == [got EXCEPT ![r].pc = "done", ![r].resp = resp]
         IN  req' =
               IF h.path = "/other"
               THEN done([NoResp EXCEPT !.status = 404, !.msg = "Not Found"])
               ELSE IF h.path = "/version"
               THEN IF h.var_bound
                    THEN done([NoResp EXCEPT !.status = 200, !.cors = TRUE,
                                             !.msg = "version"])
                    ELSE [got EXCEPT ![r].pc = "failed"]
               ELSE IF ~h.url_ok
               THEN done(ErrorCors("Unknown error", 500))
               ELSE IF ~ip_param.some
               THEN done(ErrorCors("ip parameter is missing!", 400))
               ELSE IF ip_param.text.syn = "empty"
               THEN done(ErrorCors("ip parameter is empty!", 400))
               ELSE [got EXCEPT ![r].pc = "call",
                                ![r].after_fail = FailedAndEmpty,
                                ![r].ip_param = ip_param.text,
                                ![r].ip_address = [fam |-> parsed.fam,
                                                   val |-> parsed.val]]
    /\ UNCHANGED <<AWS_RESPONSE, heap, lock, wlog, testvars>>

\* lines 126-168 and 196-209: routing, URL, the `ip` parameter.  A path
\* without a route gets the Router's own 404, which main returns as it is;
\* `?` on ctx.var returns Err from the handler before any response exists.
Start(r) ==
    /\ req[r].pc = "idle"
    /\ \E h \in HttpRequests :
         LET ip_param == FindIp(h.query)
             parsed == ParseIpAddr(ip_param.text)
             got == [req EXCEPT ![r].path = h.path, ![r].url_ok = h.url_ok,
                               ![r].query = h.query]
             done(resp) == [got EXCEPT ![r].pc = "done", ![r].resp = resp]
         IN  req' =
               IF h.path = "/other"
               THEN done([NoResp EXCEPT !.status = 404, !.msg = "Not Found"])
               ELSE IF h.path = "/version"
               THEN IF h.var_bound
                    THEN done([NoResp EXCEPT !.status = 200, !.cors = TRUE,
                                             !.msg = "version"])
                    ELSE [got EXCEPT ![r].pc = "failed"]
               ELSE IF ~h.url_ok
               THEN done(ErrorCors("Unknown error", 500))
               ELSE IF ~ip_param.some
               THEN done(ErrorCors("ip parameter is missing!", 400))
               ELSE IF ip_param.text.syn = "empty"
               THEN done(ErrorCors("ip parameter is empty!", 400))
               ELSE IF ~parsed.ok
               THEN [done(ErrorCors("ip parameter is not a valid IP address!", 400))
                        EXCEPT ![r].ip_param = ip_param.text]
               ELSE [got EXCEPT ![r].pc = "call",
                                ![r].after_fail = FailedAndEmpty,
                                ![r].ip_param = ip_param.text,
                                ![r].ip_address = [fam |-> parsed.fam,
                                                   val |-> parsed.val]]
    /\ UNCHANGED <<AWS_RESPONSE, heap, lock, wlog, testvars>>

\* ------------------------------------------------------- fetch_aws_ranges
\* line 91: AWS_RESPONSE.read()
AcquireRead(r) ==
    /\ req[r].pc = "call"
    /\ lock.writer = 0
    /\ lock' = [lock EXCEPT !.readers = @ \cup {r}]
    /\ req' = [req EXCEPT ![r].pc = "rlocked", ![r].locks = @ + 1]
    /\ UNCHANGED <<AWS_RESPONSE, heap, wlog, testvars>>

\* ReadSlot with the presence test lost: every call goes on to fetch
ReadSlot_refetch(r) ==
    /\ req[r].pc = "rlocked"
    /\ lock' = [lock EXCEPT !.readers = @ \ {r}]
    /\ req' = [req EXCEPT ![r].read = AWS_RESPONSE,
                          ![r].storage = NoArc,
                          ![r].is_local = (AWS_RESPONSE # NoArc),
                          ![r].pc = "fetch"]
    /\ UNCHANGED <<AWS_RESPONSE, heap, wlog, testvars>>

\* ReadSlot with the guard bound in the function's scope: it is not dropped
\* before the fetch
ReadSlot_keep_guard(r) ==
    /\ req[r].pc = "rlocked"
    /\ lock' = IF AWS_RESPONSE # NoArc
               THEN [lock EXCEPT !.readers = @ \ {r}]
               ELSE lock
    /\ req' = [req EXCEPT ![r].read = AWS_RESPONSE,
                          ![r].storage = AWS_RESPONSE,
                          ![r].is_local = (AWS_RESPONSE # NoArc),
                          ![r].pc = IF AWS_RESPONSE # NoArc THEN "ret" ELSE "fetch"]
    /\ UNCHANGED <<AWS_RESPONSE, heap, wlog, testvars>>

\* ReadSlot that moves the content out of the slot (Option::take)
ReadSlot_take(r) ==
    /\ req[r].pc = "rlocked"
    /\ lock' = [lock EXCEPT !.readers = @ \ {r}]
    /\ req' = [req EXCEPT ![r].read = AWS_RESPONSE,
                          ![r].storage = AWS_RESPONSE,
                          ![r].is_local = (AWS_RESPONSE # NoArc),
                          ![r].pc = IF AWS_RESPONSE # NoArc THEN "ret" ELSE "fetch"]
    /\ AWS_RESPONSE' = NoArc
    /\ UNCHANGED <<heap, wlog, testvars>>

\* lines 92-97: clone the reference, drop the guard, is_local
ReadSlot(r) ==
    /\ req[r].pc = "rlocked"
    /\ lock' = [lock EXCEPT !.readers = @ \ {r}]
    /\ req' = [req EXCEPT ![r].read = AWS_RESPONSE,
                          ![r].storage = AWS_RESPONSE,
                          ![r].is_local = (AWS_RESPONSE # NoArc),
                          ![r].pc = IF AWS_RESPONSE # NoArc THEN "ret" ELSE "fetch"]
    /\ UNCHANGED <<AWS_RESPONSE, heap, wlog, testvars>>

\* lines 170-177: the handler's answer to Err from fetch_aws_ranges
FetchFailed(r) ==
    [req EXCEPT ![r].pc = "done",
                ![r].resp = ErrorCors("Unable to fetch AWS ranges", 500)]

\* FetchSend that sends a second time when the first send failed
FetchSend_retry(r) ==
    /\ req[r].pc = "fetch"
    /\ \E outcome \in {"new_err", "send_err", "retry_ok", "ok"} :
         req' = CASE outcome = "ok" -> [req EXCEPT ![r].pc = "json", ![r].loads = @ + 1]
                  [] outcome = "retry_ok" ->
                        [req EXCEPT ![r].pc = "json", ![r].loads = @ + 2]
                  [] outcome = "send_err" -> [FetchFailed(r) EXCEPT ![r].loads = @ + 2]
                  [] OTHER -> [FetchFailed(r) EXCEPT ![r].loads = @ + 1]
    /\ UNCHANGED <<AWS_RESPONSE, heap, lock, wlog, testvars>>

\* FetchSend that empties the slot when the fetch failed
FetchSend_invalidate(r) ==
    /\ req[r].pc = "fetch"
    /\ \E outcome \in {"new_err", "send_err", "ok"} :
         IF outcome = "ok"
         THEN /\ req' = [req EXCEPT ![r].pc = "json", ![r].loads = @ + 1]
              /\ AWS_RESPONSE' = AWS_RESPONSE
         ELSE /\ req' = [FetchFailed(r) EXCEPT ![r].loads = @ + 1]
              /\ AWS_RESPONSE' = NoArc
    /\ UNCHANGED <<heap, lock, wlog, testvars>>

\* lines 99-104: build the request and send it; `?` returns either error
FetchSend(r) ==
    /\ req[r].pc = "fetch"
    /\ \E outcome \in {"new_err", "send_err", "ok"} :
         req' = IF outcome = "ok"
                THEN [req EXCEPT ![r].pc = "json", ![r].loads = @ + 1]
                ELSE [FetchFailed(r) EXCEPT ![r].loads = @ + 1]
    /\ UNCHANGED <<AWS_RESPONSE, heap, lock, wlog, testvars>>

\* Decode storing the decoded ranges into the slot before the header is read
Decode_early_store(r) ==
    /\ req[r].pc = "json"
    /\ \E u \in Upstream :
         LET cf_cache_status == IF u.cf_header = None THEN "UNKNOWN" ELSE u.cf_header
         IN  IF ~u.decodes
             THEN req' = FetchFailed(r) /\ heap' = heap /\ AWS_RESPONSE' = AWS_RESPONSE
             ELSE IF CalcPanics(u.body)
             THEN /\ req' = [req EXCEPT ![r].pc = "panicked", ![r].bad_cidr = TRUE]
                  /\ heap' = heap /\ AWS_RESPONSE' = AWS_RESPONSE
             ELSE /\ heap' = Append(heap, calculate_aws_response(u.body, cf_cache_status))
                  /\ IF ~u.hdr_ok
                     THEN req' = FetchFailed(r) /\ AWS_RESPONSE' = Len(heap) + 1
                     ELSE /\ req' = [req EXCEPT ![r].pc = "wlock",
                                        ![r].fresh = Len(heap) + 1,
                                        ![r].cf_header = u.cf_header]
                          /\ AWS_RESPONSE' = AWS_RESPONSE
    /\ UNCHANGED <<lock, wlog, testvars>>

\* lines 105-112: decode the body, read the header, compute the ranges and
\* wrap the result in a new Arc
Decode(r) ==
    /\ req[r].pc = "json"
    /\ \E u \in Upstream :
         LET cf_cache_status == IF u.cf_header = None THEN "UNKNOWN" ELSE u.cf_header
         IN  IF ~u.decodes \/ ~u.hdr_ok
             THEN req' = FetchFailed(r) /\ heap' = heap
             ELSE IF CalcPanics(u.body)
             THEN /\ req' = [req EXCEPT ![r].pc = "panicked", ![r].bad_cidr = TRUE]
                  /\ heap' = heap
             ELSE /\ heap' = Append(heap, calculate_aws_response(u.body, cf_cache_status))
                  /\ req' = [req EXCEPT ![r].pc = "wlock", ![r].fresh = Len(heap) + 1,
                                        ![r].cf_header = u.cf_header]
    /\ UNCHANGED <<AWS_RESPONSE, lock, wlog, testvars>>

\* line 114: AWS_RESPONSE.write()
AcquireWrite(r) ==
    /\ req[r].pc = "wlock"
    /\ lock.writer = 0 /\ lock.readers = {}
    /\ lock' = [lock EXCEPT !.writer = r]
    /\ req' = [req EXCEPT ![r].pc = "wlocked", ![r].locks = @ + 1]
    /\ UNCHANGED <<AWS_RESPONSE, heap, wlog, testvars>>

\* WriteSlot with is_local taken after the store instead of before it
WriteSlot_late_flag(r) ==
    /\ req[r].pc = "wlocked"
    /\ AWS_RESPONSE' = req[r].fresh
    /\ wlog' = Append(wlog, req[r].fresh)
    /\ lock' = [lock EXCEPT !.writer = 0]
    /\ req' = [req EXCEPT ![r].storage = req[r].fresh, ![r].pc = "ret",
                          ![r].is_local = TRUE]
    /\ UNCHANGED <<heap, testvars>>

\* WriteSlot that stores only into an empty slot: the first store wins
WriteSlot_first_wins(r) ==
    /\ req[r].pc = "wlocked"
    /\ IF AWS_RESPONSE = NoArc
       THEN AWS_RESPONSE' = req[r].fresh /\ wlog' = Append(wlog, req[r].fresh)
       ELSE AWS_RESPONSE' = AWS_RESPONSE /\ wlog' = wlog
    /\ lock' = [lock EXCEPT !.writer = 0]
    /\ req' = [req EXCEPT ![r].storage = req[r].fresh, ![r].pc = "ret"]
    /\ UNCHANGED <<heap, testvars>>

\* lines 115-118: store the Arc, keep a clone, drop the guard
WriteSlot(r) ==
    /\ req[r].pc = "wlocked"
    /\ AWS_RESPONSE' = req[r].fresh
    /\ wlog' = Append(wlog, req[r].fresh)
    /\ lock' = [lock EXCEPT !.writer = 0]
    /\ req' = [req EXCEPT ![r].storage = req[r].fresh, ![r].pc = "ret"]
    /\ UNCHANGED <<heap, testvars>>

\* variants of Respond(r): the tag, the matches and the response are given
RespondWith(r, tag(_, _), found(_, _), wrap(_)) ==
    /\ req[r].pc = "ret"
    /\ LET aws_response == heap[req[r].storage]
           cache_status == tag(req[r].is_local, aws_response)
           matches == found(req[r].is_local,
                            ip_match(aws_response.ranges, req[r].ip_address))
       IN  req' = [req EXCEPT ![r].pc = "done",
                     ![r].resp = wrap([NoResp EXCEPT !.status = 200, !.cors = TRUE,
                                     !.requested_ip = req[r].ip_param,
                                     !.cache_status = cache_status,
                                     !.matches = matches])]
    /\ UNCHANGED <<AWS_RESPONSE, heap, lock, wlog, testvars>>

TagOf(is_local, aws_response) ==
    IF is_local THEN "LOCAL" ELSE aws_response.cf_cache_status
StoredTag(is_local, aws_response) == aws_response.cf_cache_status
AllFound(is_local, matches) == matches
RestFound(is_local, matches) ==
    IF is_local /\ matches # << >> THEN Tail(matches) ELSE matches
AsIs(resp) == resp
NotFoundIfEmpty(resp) ==
    IF resp.matches = << >> THEN ErrorCors("No matching range", 404) ELSE resp

\* Respond answering 404 when no range contains the address
Respond_not_found(r) == RespondWith(r, TagOf, AllFound, NotFoundIfEmpty)

\* Respond reporting the stored freshness tag on every path
Respond_stored_tag(r) == RespondWith(r, StoredTag, AllFound, AsIs)

\* Respond whose matches on the Hit path resume after the first one, as if
\* the cached entries were a cursor an earlier request had advanced
Respond_cursor(r) == RespondWith(r, TagOf, RestFound, AsIs)

\* Respond that looks the Dataset up in the slot again instead of using the
\* reference the call returned
Respond_from_slot(r) ==
    /\ req[r].pc = "ret"
    /\ LET aws_response == heap[AWS_RESPONSE]
           cache_status == IF req[r].is_local THEN "LOCAL"
                           ELSE aws_response.cf_cache_status
           matches == ip_match(aws_response.ranges, req[r].ip_address)
       IN  req' = [req EXCEPT ![r].pc = "done",
                     ![r].resp = [NoResp EXCEPT !.status = 200, !.cors = TRUE,
                                     !.requested_ip = req[r].ip_param,
                                     !.cache_status = cache_status,
                                     !.matches = matches]]
    /\ UNCHANGED <<AWS_RESPONSE, heap, lock, wlog, testvars>>

\* lines 120-122 and 170-194: Ok((dataset, is_local)), cache_status, matches
Respond(r) ==
    /\ req[r].pc = "ret"
    /\ LET aws_response == heap[req[r].storage]
           cache_status == IF req[r].is_local THEN "LOCAL"
                           ELSE aws_response.cf_cache_status
           matches == ip_match(aws_response.ranges, req[r].ip_address)
       IN  req' = [req EXCEPT ![r].pc = "done",
                     ![r].resp = [NoResp EXCEPT !.status = 200, !.cors = TRUE,
                                     !.requested_ip = req[r].ip_param,
                                     !.cache_status = cache_status,
                                     !.matches = matches]]
    /\ UNCHANGED <<AWS_RESPONSE, heap, lock, wlog, testvars>>

\* line 209: the handler's future has completed (a response, an Err, or a
\* panic that ended the task); the next request may take the task's place.
\* After a panic the runtime may instead tear the instance down, which only
\* removes behaviours.
Finish(r) ==
    /\ req[r].pc \in {"done", "failed", "panicked"}
    /\ req' = [req EXCEPT ![r] = IdleReq]
    /\ UNCHANGED <<AWS_RESPONSE, heap, lock, wlog, testvars>>

Next ==
    \E r \in Req :
        \/ Start(r)
        \/ AcquireRead(r)
        \/ ReadSlot(r)
        \/ FetchSend(r)
        \/ Decode(r)
        \/ AcquireWrite(r)
        \/ WriteSlot(r)
        \/ Respond(r)
        \/ Finish(r)

Spec == Init /\ [][Next]_vars

\* ------------------------------------------------------ the tests module
\* entries a fixture may hold: a broad block written with host bits set, a
\* single-address block inside it, the block of all addresses, and one whose
\* prefix length does not fit; for IPv6 a broad block, a single low address
\* and a text of the other family
V4Cands ==
    {Prefix(Cidr("v4", TopV4 + 1, 1), "us-east-1", "AMAZON", "us-east-1"),
     Prefix(Cidr("v4", TopV4 + 1, V4Bits), "us-west-2", "EC2", "us-west-2-lax-1"),
     Prefix(Cidr("v4", 0, 0), "GLOBAL", "CLOUDFRONT", "GLOBAL"),
     Prefix(Cidr("v4", 0, V4Bits + 1), "eu-west-1", "S3", "eu-west-1")}

V6Cands ==
    {Prefix(Cidr("v6", TopV6, 1), "ap-south-1", "AMAZON", "ap-south-1"),
     Prefix(Cidr("v6", TopV4 + 1, V6Bits), "sa-east-1", "EC2", "sa-east-1"),
     Prefix(Cidr("v4", TopV4 + 1, 1), "us-east-1", "AMAZON", "us-east-1")}

SeqsUpTo(S, n) == UNION {[1..k -> S] : k \in 0..n}

\* the fixtures init_aws_response may read
Fixtures == {Ranges(v4, v6) : v4 \in SeqsUpTo(V4Cands, MaxEntries),
                              v6 \in SeqsUpTo(V6Cands, MaxEntries)}

TestInit ==
    /\ MainInit
    /\ t_pc = "start"
    /\ t_ranges \in Fixtures
    /\ t_resp = NoTestResp
    /\ t_ip = NoAddr
    /\ t_out = << >>

\* lines 268-274: calculate_aws_response(ranges, "TEST")
init_aws_response ==
    /\ t_pc = "start"
    /\ IF CalcPanics(t_ranges)
       THEN t_pc' = "panicked" /\ t_resp' = t_resp
       ELSE t_pc' = "built" /\ t_resp' = calculate_aws_response(t_ranges, "TEST")
    /\ UNCHANGED <<t_ranges, t_ip, t_out, mainvars>>

\* lines 281-288 and 296-303: ip_match(&aws_response.ranges, &ip_address),
\* any number of times on the same AWSResponse
test_matching ==
    /\ t_pc \in {"built", "matched"}
    /\ \E ip_address \in IpAddr :
         /\ t_ip' = ip_address
         /\ t_out' = ip_match(t_resp.ranges, ip_address)
    /\ t_pc' = "matched"
    /\ UNCHANGED <<t_ranges, t_resp, mainvars>>

TestNext == init_aws_response \/ test_matching

TestSpec == TestInit /\ [][TestNext]_vars

\* ================================================================ claims
\* requests that went through GET / with a parseable address
Served(r) == req[r].pc = "done" /\ req[r].path = "/" /\ req[r].resp.status = 200

\* the call of fetch_aws_ranges by r has returned Ok
Returned(r) == req[r].pc \in {"ret", "done"} /\ req[r].storage # NoArc

\* the call of fetch_aws_ranges by r has returned Err
FetchErr(r) ==
    /\ req[r].pc = "done" /\ req[r].path = "/"
    /\ req[r].resp.msg = "Unable to fetch AWS ranges"

LastWrite == IF wlog = << >> THEN NoArc ELSE wlog[Len(wlog)]

\* C1: a call that reads the slot and finds a Dataset present returns that
\* very Dataset, tagged Hit (is_local), and never invokes the loader: it
\* sends no upstream request and allocates no Dataset of its own.
C1_CacheHit ==
    \A r \in Req :
        req[r].read # NoArc =>
            /\ req[r].pc \in {"ret", "done"}
            /\ req[r].is_local
            /\ req[r].storage = req[r].read
            /\ req[r].loads = 0
            /\ req[r].fresh = NoArc
            /\ req[r].locks = 1

C1_Witness ==
    \E r \in Req : req[r].read # NoArc /\ Served(r) /\ Len(heap) = 1

\* C2 as stated: every call that reads a populated slot is a Hit on the
\* Dataset the first population stored.
C2_Original ==
    \A r \in Req :
        req[r].read # NoArc =>
            req[r].is_local /\ req[r].storage = wlog[1] /\ req[r].loads = 0

\* C2 amended: the slot always references the Dataset of the latest store;
\* a call that populated returns Miss with the Dataset it stored itself, and
\* a call that read a populated slot returns Hit on the Dataset the slot
\* held at that read, which some population stored, without a fetch.
C2_MissThenHit ==
    /\ AWS_RESPONSE = LastWrite
    /\ \A r \in Req :
        /\ (Returned(r) /\ req[r].read = NoArc) =>
              /\ ~req[r].is_local
              /\ req[r].storage = req[r].fresh
              /\ req[r].loads = 1
              /\ \E i \in 1..Len(wlog) : wlog[i] = req[r].storage
        /\ req[r].read # NoArc =>
              /\ req[r].is_local
              /\ req[r].storage = req[r].read
              /\ req[r].loads = 0
              /\ \E i \in 1..Len(wlog) : wlog[i] = req[r].read

C2_Witness ==
    \E r1, r2 \in Req :
        /\ Served(r1) /\ ~req[r1].is_local
        /\ Served(r2) /\ req[r2].is_local /\ req[r2].storage = req[r1].storage

\* C3: the step by which a population attempt fails at the fetch (request
\* construction, send, body decode, header read) hands the caller the error
\* and writes nothing: slot, stored Datasets and write history are as before,
\* and the failing call never took the exclusive lock.
C3_FailureLeavesSlot ==
    [][\A r \in Req :
          (req[r].pc \in {"fetch", "json"} /\ req'[r].pc = "done") =>
              /\ req'[r].resp = ErrorCors("Unable to fetch AWS ranges", 500)
              /\ AWS_RESPONSE' = AWS_RESPONSE
              /\ wlog' = wlog
              /\ heap' = heap
              /\ req'[r].fresh = NoArc
              /\ req'[r].locks = 1]_vars

C3_Witness ==
    \E r \in Req : FetchErr(r) /\ AWS_RESPONSE = NoArc /\ req[r].loads = 1

\* C4 as stated: a population attempt that met a malformed CIDR ends like a
\* fetch failure, with the 500 response of the handler.
C4_MalformedIsFailure ==
    \A r \in Req :
        req[r].bad_cidr =>
            /\ req[r].pc = "done"
            /\ req[r].resp = ErrorCors("Unable to fetch AWS ranges", 500)

\* ---- matching, stated from the published CIDR texts
\* the addresses of the block a CIDR text names: those from the block's
\* first address up to its last
NetContains(fam, text, val) ==
    LET size == Pow2(Bits(fam) - text.len)
        lo == (text.addr \div size) * size
    IN  lo <= val /\ val < lo + size

FamilyEntries(ranges, fam) ==
    IF fam = "V4" THEN ranges.prefixes ELSE ranges.ipv6_prefixes

Containing(ranges, ip) ==
    {i \in 1..Len(FamilyEntries(ranges, ip.fam)) :
        NetContains(ip.fam, FamilyEntries(ranges, ip.fam)[i].ip_prefix, ip.val)}

\* the k-th smallest member of a set of indexes
Kth(S, k) == CHOOSE i \in S : Cardinality({j \in S : j < i}) = k - 1

Projection(e) ==
    [ip_prefix |-> e.ip_prefix, region |-> e.region, service |-> e.service,
     network_border_group |-> e.network_border_group]

\* C5: ip_match returns one projection per entry of the address's family
\* whose CIDR block contains the address, all of them (duplicates and
\* overlapping blocks included), in the order of the entries.
C5_MatchCompleteInOrder ==
    t_pc = "matched" =>
        LET hits == Containing(t_ranges, t_ip)
            entries == FamilyEntries(t_ranges, t_ip.fam)
        IN  /\ Len(t_out) = Cardinality(hits)
            /\ \A k \in 1..Len(t_out) : t_out[k] = Projection(entries[Kth(hits, k)])

C5_Witness ==
    /\ t_pc = "matched" /\ t_ip.fam = "V4"
    /\ Len(t_out) = 2 /\ Len(t_ranges.prefixes) = 2
    /\ t_out[1].ip_prefix.len = 1 /\ t_out[2].ip_prefix.len = V4Bits

\* C6: every match comes from the list of the queried address's family, so
\* its CIDR text is of that family; an IPv6 address whose number also is an
\* IPv4 address never matches an IPv4 entry.
C6_FamilyIsolation ==
    t_pc = "matched" =>
        \A k \in 1..Len(t_out) :
            /\ t_out[k].ip_prefix.syn = (IF t_ip.fam = "V4" THEN "v4" ELSE "v6")
            /\ \E i \in 1..Len(FamilyEntries(t_ranges, t_ip.fam)) :
                  t_out[k] = Projection(FamilyEntries(t_ranges, t_ip.fam)[i])

C6_Witness ==
    /\ t_pc = "matched" /\ t_ip = [fam |-> "V6", val |-> TopV4 + 1]
    /\ \E i \in 1..Len(t_ranges.prefixes) :
          NetContains("V4", t_ranges.prefixes[i].ip_prefix, t_ip.val)
    /\ Len(t_out) = 1

\* C7: a request with a valid address that obtained a Dataset ends with a
\* 200 result; its matches are empty exactly when no published block of the
\* address's family contains the address.
C7_NoMatchIsOk ==
    \A r \in Req :
        (req[r].pc = "done" /\ req[r].storage # NoArc) =>
            /\ req[r].resp.status = 200
            /\ req[r].resp.matches = << >>
                 <=> Containing(heap[req[r].storage].ranges, req[r].ip_address) = {}

C7_Witness ==
    \E r1, r2 \in Req :
        /\ Served(r1) /\ req[r1].resp.matches = << >>
        /\ Served(r2) /\ req[r2].resp.matches # << >>

C9_CacheStatus ==
    \A r \in Req :
        Served(r) =>
            /\ req[r].resp.cache_status = "LOCAL"
                 <=> (req[r].read # NoArc /\ req[r].loads = 0)
            /\ req[r].read = NoArc =>
                 /\ req[r].loads = 1
                 /\ req[r].resp.cache_status =
                      (IF req[r].cf_header = None THEN "UNKNOWN" ELSE req[r].cf_header)

C9_Witness ==
    \E r1, r2 \in Req :
        /\ Served(r1) /\ req[r1].resp.cache_status = "UNKNOWN"
        /\ req[r1].cf_header = None
        /\ Served(r2) /\ req[r2].resp.cache_status = "LOCAL"
        /\ heap[req[r2].storage].cf_cache_status = "HIT"

\* ---- the `ip` parameter, stated from the query string
HasIp(q) == \E i \in 1..Len(q) : q[i][1] = "ip"

FirstIp(q) ==
    q[CHOOSE i \in 1..Len(q) :
        q[i][1] = "ip" /\ \A j \in 1..(i - 1) : q[j][1] # "ip"][2]

BadParam(r) ==
    /\ req[r].pc # "idle" /\ req[r].path = "/" /\ req[r].url_ok
    /\ ~HasIp(req[r].query) \/ FirstIp(req[r].query).syn \notin {"v4", "v6"}

\* C10: a GET / request whose ip parameter is missing, empty or not an
\* address is answered 400 at once: it never takes the slot's lock (so it
\* neither reads nor writes the slot) and never sends an upstream request.
C10_ParamErrors ==
    \A r \in Req :
        BadParam(r) =>
            /\ req[r].pc = "done"
            /\ req[r].resp.status = 400
            /\ req[r].locks = 0 /\ req[r].loads = 0
            /\ req[r].read = NoArc /\ req[r].fresh = NoArc /\ req[r].storage = NoArc

C10_Witness ==
    \E r1, r2 \in Req :
        /\ BadParam(r1) /\ ~HasIp(req[r1].query)
        /\ BadParam(r2) /\ Len(req[r2].query) = 2 /\ HasIp(req[r2].query)
        /\ FirstIp(req[r2].query) = JunkText
        /\ req[r1].resp.status = 400 /\ req[r2].resp.status = 400
        /\ AWS_RESPONSE # NoArc

\* ---- the boundary of the handler
ValidAddr(r) ==
    /\ req[r].pc # "idle" /\ req[r].path = "/" /\ req[r].url_ok
    /\ HasIp(req[r].query) /\ FirstIp(req[r].query).syn \in {"v4", "v6"}

Ended(r) == req[r].pc \in {"done", "failed", "panicked"}

GenericError == ErrorCors("Unable to fetch AWS ranges", 500)

\* C11 as stated: a GET / request with a valid address that has ended has a
\* 200 result or the generic 500; nothing ends outside a response, and the
\* 500 goes with exactly the requests whose population attempt failed.
C11_PopulationFailureIs500 ==
    \A r \in Req :
        (ValidAddr(r) /\ Ended(r)) =>
            /\ req[r].pc = "done"
            /\ req[r].resp.status = 200 \/ req[r].resp = GenericError
            /\ req[r].resp = GenericError <=> req[r].storage = NoArc

\* C12 as stated: whatever the fetch event handler ended with, it is a
\* response that carries the CORS headers.
C12_AllResponsesCors ==
    \A r \in Req :
        req[r].pc \in {"done", "failed"} => req[r].resp.cors

\* ---- complete Datasets
\* the range of an entry holds the addresses of the entry's own block
EntryComplete(fam, e) ==
    /\ e.compute # EmptyRange
    /\ \A val \in 0..(Pow2(Bits(fam)) - 1) :
          RangeContains(fam, e.compute, val) <=> NetContains(fam, e.ip_prefix, val)

Complete(aws_response) ==
    /\ aws_response.cf_cache_status # ""
    /\ \A i \in 1..Len(aws_response.ranges.prefixes) :
          EntryComplete("V4", aws_response.ranges.prefixes[i])
    /\ \A i \in 1..Len(aws_response.ranges.ipv6_prefixes) :
          EntryComplete("V6", aws_response.ranges.ipv6_prefixes[i])

\* C13: the slot is empty or references one Dataset in which every IPv4 and
\* every IPv6 entry has its range computed and the freshness tag is set, and
\* so does every reference a request holds.
C13_AllOrNothing ==
    /\ AWS_RESPONSE \in 0..Len(heap)
    /\ AWS_RESPONSE # NoArc => Complete(heap[AWS_RESPONSE])
    /\ \A r \in Req :
          req[r].storage # NoArc =>
              /\ req[r].storage \in 1..Len(heap)
              /\ Complete(heap[req[r].storage])

C13_Witness ==
    \E r1, r2 \in Req :
        /\ AWS_RESPONSE # NoArc
        /\ Len(heap[AWS_RESPONSE].ranges.ipv6_prefixes) > 0
        /\ req[r1].pc = "ret" /\ req[r1].is_local
        /\ req[r2].pc = "wlocked"

\* C14: the shared lock is held only between taking it and cloning the
\* reference, the exclusive lock only by a request that holds a finished
\* Dataset and is about to store it; no request at its fetch, decode or
\* range computation holds either.
C14_NoLockAcrossFetch ==
    /\ lock.writer \in Req \cup {0}
    /\ \A r \in Req :
        /\ r \in lock.readers => req[r].pc = "rlocked"
        /\ lock.writer = r =>
              /\ req[r].pc = "wlocked"
              /\ req[r].fresh # NoArc /\ Complete(heap[req[r].fresh])
        /\ req[r].pc \in {"fetch", "json"} =>
              r \notin lock.readers /\ lock.writer # r

C14_Witness ==
    \E r1, r2 \in Req :
        /\ req[r1].pc = "json"
        /\ req[r2].pc = "rlocked" /\ r2 \in lock.readers

\* ---- concurrent misses
TagOfHeader(h) == IF h = None THEN "UNKNOWN" ELSE h

Stores(id) == {i \in 1..Len(wlog) : wlog[i] = id}

\* C15: each request that observed the empty slot and whose loader succeeded
\* has a Dataset of its own (no two share one), has stored it exactly once
\* and returns it tagged Miss; when no store is pending the slot references
\* the Dataset stored last; a request whose loader failed has stored nothing,
\* and the slot still references a stored Dataset.
C15_ConcurrentMisses ==
    /\ \A r \in Req :
        /\ (Returned(r) /\ req[r].read = NoArc) =>
              /\ ~req[r].is_local
              /\ req[r].storage = req[r].fresh
              /\ heap[req[r].fresh].cf_cache_status = TagOfHeader(req[r].cf_header)
              /\ Cardinality(Stores(req[r].fresh)) = 1
        /\ \A q \in Req \ {r} : req[r].fresh # NoArc => req[q].fresh # req[r].fresh
        /\ (FetchErr(r) \/ req[r].pc = "panicked") =>
              req[r].fresh = NoArc /\ req[r].storage = NoArc
    /\ (wlog # << >> /\ \A r \in Req : req[r].pc # "wlocked") =>
          AWS_RESPONSE = wlog[Len(wlog)]
    /\ Len(wlog) <= Len(heap)

C15_Witness ==
    \E r1, r2 \in Req :
        /\ Returned(r1) /\ ~req[r1].is_local
        /\ Returned(r2) /\ ~req[r2].is_local
        /\ req[r1].storage # req[r2].storage
        /\ wlog = <<req[r1].storage, req[r2].storage>>
        /\ AWS_RESPONSE = req[r2].storage

\* C16: a request invokes the loader at most once, and only after it read
\* the slot empty; every request with a valid address that read the slot
\* empty invokes it, also when it arrived after a failed population that
\* left the slot empty; once its loader succeeded and it stored, the slot is
\* populated.
C16_RetryPerRequest ==
    \A r \in Req :
        /\ req[r].loads <= 1
        /\ req[r].loads = 1 => req[r].read = NoArc /\ req[r].locks >= 1
        /\ (/\ ValidAddr(r) /\ req[r].locks >= 1 /\ req[r].read = NoArc
            /\ req[r].pc \notin {"rlocked", "fetch"}) => req[r].loads = 1
        /\ (Returned(r) /\ req[r].loads = 1) => AWS_RESPONSE # NoArc

C16_Witness ==
    \E r \in Req :
        /\ req[r].after_fail /\ req[r].loads = 1
        /\ Returned(r) /\ AWS_RESPONSE = req[r].storage

\* C17: the slot changes only in the step in which a request that fetched
\* and built a Dataset stores it; every other step (a Hit call, matching and
\* responding, /version, failing requests) leaves the slot as it is.
C17_OnlyLoaderWrites ==
    [][AWS_RESPONSE' # AWS_RESPONSE =>
          \E r \in Req :
              /\ req[r].pc = "wlocked" /\ req'[r].pc = "ret"
              /\ req[r].loads = 1 /\ ~req[r].is_local
              /\ req[r].fresh # NoArc
              /\ AWS_RESPONSE' = req[r].fresh]_vars

C17_Witness ==
    \E r1, r2 \in Req :
        /\ Served(r1) /\ req[r1].is_local /\ AWS_RESPONSE = req[r1].storage
        /\ FetchErr(r2)

\* ---- parsing
Addrs(fam) == 0..(Pow2(Bits(fam)) - 1)

\* C18: calculate_aws_response yields, for either family, as many entries as
\* it was given, in the same order and with text, region, service and
\* network border group unchanged; the range of each entry contains exactly
\* the addresses of the block its own text names, whatever the entries
\* around it are; the tag is the one passed in.
C18_ParseOneToOne ==
    t_pc \in {"built", "matched"} =>
        /\ t_resp.cf_cache_status = "TEST"
        /\ \A fam \in {"V4", "V6"} :
              LET given == FamilyEntries(t_ranges, fam)
                  built == FamilyEntries(t_resp.ranges, fam)
              IN  /\ Len(built) = Len(given)
                  /\ \A i \in 1..Len(given) :
                        /\ Projection(built[i]) = Projection(given[i])
                        /\ \A val \in Addrs(fam) :
                              RangeContains(fam, built[i].compute, val)
                                 <=> NetContains(fam, given[i].ip_prefix, val)

C18_Witness ==
    /\ t_pc = "built"
    /\ Len(t_resp.ranges.prefixes) = 2 /\ Len(t_resp.ranges.ipv6_prefixes) = 2
    /\ t_resp.ranges.prefixes[1] = t_resp.ranges.prefixes[2]
    /\ t_resp.ranges.ipv6_prefixes[1].ip_prefix.len = 1
    /\ t_resp.ranges.ipv6_prefixes[2].ip_prefix.len = V6Bits

\* ---- the slot over time
\* C19: a populated slot stays populated; a call that reads a populated
\* slot returns that Dataset as a Hit without fetching; the loader is
\* invoked, a Dataset is built and the slot is written only by requests
\* that read the slot empty, so at most once each per such request.
C19_PopulationMonotone ==
    [][/\ AWS_RESPONSE # NoArc => AWS_RESPONSE' # NoArc
       /\ \A r \in Req :
            /\ (req[r].pc = "rlocked" /\ req'[r].pc # "rlocked" /\ AWS_RESPONSE # NoArc) =>
                  /\ req'[r].pc = "ret" /\ req'[r].is_local
                  /\ req'[r].storage = AWS_RESPONSE /\ req'[r].loads = 0
            /\ req'[r].loads > req[r].loads =>
                  req[r].locks >= 1 /\ req[r].read = NoArc /\ req[r].loads = 0
       /\ Len(heap') > Len(heap) =>
            \E r \in Req : req[r].read = NoArc /\ req[r].loads = 1 /\ req[r].fresh = NoArc
       /\ AWS_RESPONSE' # AWS_RESPONSE =>
            /\ Len(wlog') = Len(wlog) + 1
            /\ \E r \in Req : /\ req[r].read = NoArc /\ req[r].loads = 1
                              /\ AWS_RESPONSE' = req[r].fresh
                              /\ Stores(req[r].fresh) = {}
       /\ Len(wlog) <= Len(heap) /\ Len(heap) <= NReq]_vars

C19_Witness ==
    \E r \in Req :
        /\ Returned(r) /\ req[r].is_local /\ req[r].loads = 0
        /\ Len(wlog) = 2 /\ AWS_RESPONSE = wlog[2] /\ req[r].storage = wlog[2]

\* ---- the Dataset of one request
\* C20: a Dataset, once built, never changes; a request keeps the reference
\* its call returned, and its response is computed from that Dataset alone
\* (every match is an entry of it, the Miss tag is its tag), also when the
\* slot references another Dataset by then.
C20_StableDataset ==
    [][/\ Len(heap') >= Len(heap)
       /\ \A i \in 1..Len(heap) : heap'[i] = heap[i]
       /\ \A r \in Req :
            /\ (Returned(r) /\ req'[r].pc \in {"ret", "done"}) =>
                  req'[r].storage = req[r].storage
            /\ Served(r) =>
                  LET own == heap[req[r].storage]
                      ip == req[r].ip_address
                      hits == Containing(own.ranges, ip)
                      entries == FamilyEntries(own.ranges, ip.fam)
                      matches == req[r].resp.matches
                  IN  /\ Len(matches) = Cardinality(hits)
                      /\ \A k \in 1..Len(matches) :
                            matches[k] = Projection(entries[Kth(hits, k)])
                      /\ ~req[r].is_local =>
                            req[r].resp.cache_status = own.cf_cache_status]_vars

C20_Witness ==
    \E r \in Req :
        /\ Served(r) /\ ~req[r].is_local /\ req[r].resp.matches # << >>
        /\ AWS_RESPONSE # req[r].storage
        /\ heap[AWS_RESPONSE].cf_cache_status # req[r].resp.cache_status

====
